---- MODULE Spec2Model ----
(***************************************************************************)
(* Loyalty-program ledger of kaseirim-backend: the Customer, Transaction   *)
(* and LoyaltyConfig models (src/src/models/loyalty.py) and the HTTP       *)
(* handlers that drive them (src/src/routes/loyalty.py).                   *)
(*                                                                         *)
(* The variables hold the COMMITTED rows of the database.  A handler runs  *)
(* on a unit of work `w` (the SQLAlchemy session): the rows as the session *)
(* sees them, plus the rows as last committed.  db.session.commit() copies *)
(* the former into the latter, db.session.rollback() the latter into the   *)
(* former; what is left uncommitted when the request ends is discarded.    *)
(*                                                                         *)
(* Numbers: money amounts, points_per_real and the percentages are Float   *)
(* columns in the source; the model draws them from integers, and a        *)
(* benefit value is kept in hundredths (amount * percent stands for        *)
(* amount * (percent / 100)), so no rounding of binary floats is modelled. *)
(* Columns no rule reads (full_name, phone, email, created_at, the message *)
(* templates, description, updated_at) are not stored.  Time is kept up    *)
(* to order: a reading of the clock is the least stamp later than every    *)
(* stamp the session holds.                                                *)
(*                                                                         *)
(* Requests are served one at a time in Spec.  SpecConcurrent serves two   *)
(* POST /customers/<id>/transactions requests at once, each on its own     *)
(* session: `inflight` holds, per request in progress, the customer rows   *)
(* its session has loaded and its position in the handler.                 *)
(***************************************************************************)
EXTENDS Integers, Sequences, FiniteSets, TLC

VARIABLES customers, txs, configs, resp, inflight

vars == <<customers, txs, configs, resp, inflight>>

\* ---------------------------------------------------------------- bounds
\* add_transaction is not taken once the ledger holds MaxTx rows.
MaxTx == 2

\* The tier thresholds drawn for the points_to_next_level check are
\* 0..MaxThreshold, the point balances 0..MaxBalance.
MaxThreshold == 3
MaxBalance == 4

\* ---------------------------------------------------------------- inputs
\* CPFs as digit sequences (the handler strips every non-digit first).
CpfA == <<5,2,9,9,8,2,2,4,7,2,5>>
CpfBadCheck == <<1,2,3,4,5,6,7,8,9,0,0>>
CpfAllSame == <<1,1,1,1,1,1,1,1,1,1,1>>
CpfShort == <<1,2,3>>
NoCpf == <<>>

\* A JSON key is a sequence: empty when the body does not carry the key,
\* else holding its value.
Absent == <<>>
Given(v) == <<v>>

\* ---------------------------------------------------------------- models
Levels == {"Bronze", "Prata", "Ouro", "Diamante"}

\* LoyaltyConfig(): a row with the column defaults.
LoyaltyConfig ==
  [benefit_type |-> "points", points_per_real |-> 10,
   silver_threshold |-> 500, gold_threshold |-> 1500, diamond_threshold |-> 3000,
   bronze_discount |-> 5, silver_discount |-> 10, gold_discount |-> 15,
   diamond_discount |-> 20, active |-> TRUE]

\* The value of amount * (percent / 100) is kept as amount * percent, in
\* units of 1 / PercentBase.
PercentBase == 100

\* The value v bound to the parameter of Body: a local name for the result
\* of a call, evaluated once.
Bind(v, Body(_)) == Body(v)

\* A session over the committed rows c, t, g of the three tables.
Session(c, t, g) ==
  [customers |-> c, txs |-> t, configs |-> g,
   committed |-> [customers |-> c, txs |-> t, configs |-> g]]

\* The session as a request starts.
Begin == Session(customers, txs, configs)

\* db.session.commit()
Commit(w) ==
  [w EXCEPT !.committed =
     [customers |-> w.customers, txs |-> w.txs, configs |-> w.configs]]

\* db.session.rollback()
Rollback(w) ==
  [w EXCEPT !.customers = w.committed.customers,
            !.txs = w.committed.txs,
            !.configs = w.committed.configs]

Later(a, b) == IF a > b THEN a ELSE b

RECURSIVE LatestVisit(_)
\* The latest last_visit among the rows, 0 when there is none.
LatestVisit(rows) ==
  IF rows = <<>> THEN 0
  ELSE Later(rows[Len(rows)].last_visit,
             LatestVisit(SubSeq(rows, 1, Len(rows) - 1)))

\* datetime.utcnow(): a stamp later than every stamp stored before.
utcnow(w) == LatestVisit(w.customers) + 1

\* x // y on floats, then int(): the floor of the quotient.
FloorDiv(x, y) == IF y > 0 THEN x \div y ELSE (0 - x) \div (0 - y)

ActiveRows(rows) == {i \in 1..Len(rows) : rows[i].active}

\* LoyaltyConfig.query.filter_by(active=True).first(): the first active row.
FirstActive(rows) ==
  CHOOSE i \in ActiveRows(rows) : \A j \in ActiveRows(rows) : i <= j

\* Variant of get_current_config that commits the session on every call,
\* whether or not it had to create the row (C5 is tested against it).
get_current_config_committing(w) ==
  IF ActiveRows(w.configs) = {}
    THEN [w |-> Commit([w EXCEPT !.configs = Append(@, LoyaltyConfig)]),
          val |-> Len(w.configs) + 1]
    ELSE [w |-> Commit(w), val |-> FirstActive(w.configs)]

\* Variant of get_current_config without the lookup: a default row is added
\* on every call (C9 is tested against it).
get_current_config_always_new(w) ==
  [w |-> Commit([w EXCEPT !.configs = Append(@, LoyaltyConfig)]),
   val |-> Len(w.configs) + 1]

\* LoyaltyConfig.get_current_config(): the active row (its index); when there
\* is none, a default row is added and the session is committed.
get_current_config(w) ==
  IF ActiveRows(w.configs) = {}
    THEN [w |-> Commit([w EXCEPT !.configs = Append(@, LoyaltyConfig)]),
          val |-> Len(w.configs) + 1]
    ELSE [w |-> w, val |-> FirstActive(w.configs)]

\* The comparisons of Customer.get_level(), diamond first.
LevelOf(points, config) ==
  IF points >= config.diamond_threshold THEN "Diamante"
  ELSE IF points >= config.gold_threshold THEN "Ouro"
  ELSE IF points >= config.silver_threshold THEN "Prata"
  ELSE "Bronze"

\* Customer.get_level()
get_level(w, id) ==
  Bind(get_current_config(w), LAMBDA r :
    [w |-> r.w,
     val |-> LevelOf(r.w.customers[id].points, r.w.configs[r.val])])

\* The `discounts` dictionary of Customer.get_discount() and its lookup.
DiscountOf(level, config) ==
  CASE level = "Bronze" -> config.bronze_discount
    [] level = "Prata" -> config.silver_discount
    [] level = "Ouro" -> config.gold_discount
    [] level = "Diamante" -> config.diamond_discount
    [] OTHER -> config.bronze_discount

\* Customer.get_discount()
get_discount(w, id) ==
  Bind(get_current_config(w), LAMBDA r :
    Bind(get_level(r.w, id), LAMBDA l :
      [w |-> l.w, val |-> DiscountOf(l.val, l.w.configs[r.val])]))

\* Variant of GapOf whose comparisons are <= (C11 is tested against it).
GapOf_inclusive(points, config) ==
  IF points <= config.silver_threshold THEN config.silver_threshold - points
  ELSE IF points <= config.gold_threshold THEN config.gold_threshold - points
  ELSE IF points <= config.diamond_threshold THEN config.diamond_threshold - points
  ELSE 0

\* The comparisons of Customer.points_to_next_level(), silver first.
GapOf(points, config) ==
  IF points < config.silver_threshold THEN config.silver_threshold - points
  ELSE IF points < config.gold_threshold THEN config.gold_threshold - points
  ELSE IF points < config.diamond_threshold THEN config.diamond_threshold - points
  ELSE 0

\* Customer.points_to_next_level()
points_to_next_level(w, id) ==
  Bind(get_current_config(w), LAMBDA r :
    [w |-> r.w,
     val |-> GapOf(r.w.customers[id].points, r.w.configs[r.val])])

\* int(amount_spent // config.points_per_real)
points_to_add(amount_spent, config) ==
  FloorDiv(amount_spent, config.points_per_real)

\* Variant of Credit that assigns the points instead of adding them (C6 is
\* tested against it).
Credit_overwriting(w, id, points, amount_spent) ==
  [w EXCEPT !.customers[id].points = points,
            !.customers[id].total_spent = @ + amount_spent]

\* self.points += points_to_add; self.total_spent += amount_spent
Credit(w, id, points, amount_spent) ==
  [w EXCEPT !.customers[id].points = @ + points,
            !.customers[id].total_spent = @ + amount_spent]

\* self.level = self.get_level()
SetLevel(w, id) ==
  Bind(get_level(w, id), LAMBDA l : [l.w EXCEPT !.customers[id].level = l.val])

\* self.last_visit = datetime.utcnow()
Touch(w, id) == [w EXCEPT !.customers[id].last_visit = utcnow(w)]

\* Customer.add_points(amount_spent).  The three benefit_type branches of the
\* source compute the same points_to_add.  Dividing by a points_per_real of 0
\* raises ZeroDivisionError before anything is assigned.
add_points(w, id, amount_spent) ==
  Bind(get_current_config(w), LAMBDA r :
    IF r.w.configs[r.val].points_per_real = 0
      THEN [w |-> r.w, exc |-> "ZeroDivisionError", val |-> 0]
      ELSE Bind(points_to_add(amount_spent, r.w.configs[r.val]), LAMBDA n :
             [w |-> Touch(SetLevel(Credit(r.w, id, n, amount_spent), id), id),
              exc |-> "none", val |-> n]))

\* Variant of calculate_benefit_value that takes the percent of the tier the
\* customer had before the post (C2 is tested against it).
calculate_benefit_value_old_tier(w, id, amount_spent) ==
  Bind(get_current_config(w), LAMBDA r :
    IF r.w.configs[r.val].benefit_type \in {"discount", "cashback"}
      THEN [w |-> r.w, exc |-> "none",
            val |-> amount_spent
                      * DiscountOf(r.w.committed.customers[id].level,
                                   r.w.configs[r.val])]
      ELSE Bind(add_points(r.w, id, amount_spent), LAMBDA a :
             [w |-> a.w, exc |-> a.exc, val |-> a.val * PercentBase]))

\* Customer.calculate_benefit_value(amount_spent), in units of 1/PercentBase.
calculate_benefit_value(w, id, amount_spent) ==
  Bind(get_current_config(w), LAMBDA r :
    IF r.w.configs[r.val].benefit_type = "discount"
      THEN Bind(get_discount(r.w, id), LAMBDA d :
             [w |-> d.w, exc |-> "none", val |-> amount_spent * d.val])
    ELSE IF r.w.configs[r.val].benefit_type = "cashback"
      THEN Bind(get_discount(r.w, id), LAMBDA d :
             [w |-> d.w, exc |-> "none", val |-> amount_spent * d.val])
    ELSE Bind(add_points(r.w, id, amount_spent), LAMBDA a :
           [w |-> a.w, exc |-> a.exc, val |-> a.val * PercentBase]))

\* Customer.to_dict(), the fields the rules compute.
to_dict(w, id) ==
  Bind(get_current_config(w), LAMBDA r :
    Bind(get_discount(r.w, id), LAMBDA d :
      Bind(points_to_next_level(d.w, id), LAMBDA p :
        [w |-> p.w,
         val |-> [id |-> id,
                  cpf_raw |-> p.w.customers[id].cpf,
                  points |-> p.w.customers[id].points,
                  total_spent |-> p.w.customers[id].total_spent,
                  level |-> p.w.customers[id].level,
                  discount |-> d.val,
                  points_to_next_level |-> p.val,
                  last_visit |-> p.w.customers[id].last_visit,
                  active |-> p.w.customers[id].active,
                  benefit_type |-> p.w.configs[r.val].benefit_type]])))

\* Variant of Transaction that leaves benefit_type to its column default
\* (C10 is tested against it).
Transaction_default_type(customer_id, amount, points_earned, benefit_value, benefit_type) ==
  [customer_id |-> customer_id, amount |-> amount,
   points_earned |-> points_earned, benefit_value |-> benefit_value,
   benefit_type |-> "points"]

\* Transaction(...): the row add_transaction builds.
Transaction(customer_id, amount, points_earned, benefit_value, benefit_type) ==
  [customer_id |-> customer_id, amount |-> amount,
   points_earned |-> points_earned, benefit_value |-> benefit_value,
   benefit_type |-> benefit_type]

RECURSIVE SumTo(_, _, _)
\* sum(int(cpf[i]) * (weight - i) for i in range(n)), cpf counted from 1.
SumTo(cpf, n, weight) ==
  IF n = 0 THEN 0 ELSE cpf[n] * (weight - (n - 1)) + SumTo(cpf, n - 1, weight)

\* A check digit of validate_cpf: 11 - (sum % 11), and 0 when that is >= 10.
CheckDigit(sum) == IF 11 - (sum % 11) >= 10 THEN 0 ELSE 11 - (sum % 11)

\* validate_cpf(cpf), cpf a sequence of digits.
validate_cpf(cpf) ==
  IF Len(cpf) # 11 THEN FALSE
  ELSE IF \A i \in 1..11 : cpf[i] = cpf[1] THEN FALSE
  ELSE /\ cpf[10] = CheckDigit(SumTo(cpf, 9, 10))
       /\ cpf[11] = CheckDigit(SumTo(cpf, 10, 11))

\* Customer.query.get_or_404(customer_id): TRUE when the row exists; when it
\* does not, werkzeug's NotFound is raised inside the handler's try block.
get_or_404(w, customer_id) == customer_id \in 1..Len(w.customers)

NoBody == [kind |-> "none"]

\* A response: the session as the handler leaves it, the status, the body.
Response(w, status, body) == [w |-> w, status |-> status, body |-> body]

\* jsonify(customer.to_dict()), status
CustomerResponse(w, id, status) ==
  Bind(to_dict(w, id), LAMBDA d : Response(d.w, status, d.val))

\* ------------------------------------------------------------- handlers
\* Each handler is a function of the session and the request, giving the
\* session as the handler leaves it, the HTTP status and the JSON body.
\* `except Exception` catches whatever the try block raises, werkzeug's
\* NotFound (an Exception) included, and answers 500.

\* Customer(full_name=..., cpf=cpf, phone=phone, email=..., points=...) with
\* the column defaults, as inserted.
Customer(w, data) ==
  [cpf |-> data.cpf,
   points |-> IF data.points = Absent THEN 0 ELSE data.points[1],
   total_spent |-> 0, level |-> "Bronze",
   last_visit |-> utcnow(w), active |-> TRUE]

\* POST /customers
create_customer(w, data) ==
  IF ~data.full_name THEN Response(w, 400, NoBody)
  ELSE IF data.cpf = NoCpf THEN Response(w, 400, NoBody)
  ELSE IF ~data.phone THEN Response(w, 400, NoBody)
  ELSE IF ~validate_cpf(data.cpf) THEN Response(w, 400, NoBody)
  ELSE IF \E i \in 1..Len(w.customers) : w.customers[i].cpf = data.cpf
    THEN Response(w, 400, NoBody)
  ELSE CustomerResponse(
         Commit([w EXCEPT !.customers = Append(@, Customer(w, data))]),
         Len(w.customers) + 1, 201)

\* GET /customers/<id>
get_customer(w, customer_id) ==
  IF ~get_or_404(w, customer_id)
    THEN Response(w, 500, NoBody)
    ELSE CustomerResponse(w, customer_id, 200)

\* customer.points = data['points']; customer.level = customer.get_level()
SetPoints(w, customer_id, points) ==
  SetLevel([w EXCEPT !.customers[customer_id].points = points], customer_id)

\* PUT /customers/<id>
update_customer(w, customer_id, data) ==
  IF ~get_or_404(w, customer_id)
    THEN Response(Rollback(w), 500, NoBody)
    ELSE CustomerResponse(
           Commit(IF data.points = Absent THEN w
                  ELSE SetPoints(w, customer_id, data.points[1])),
           customer_id, 200)

\* amount = float(data.get('amount', 0))
AmountOf(data) == IF data.amount = Absent THEN 0 ELSE data.amount[1]

\* Variant of amount_rejected that lets a zero amount through (C3 is tested
\* against it).
amount_rejected_negative_only(amount) == amount < 0

\* The amount <= 0 test of add_transaction.
amount_rejected(amount) == amount <= 0

\* db.session.add(transaction); db.session.commit() and the 201 answer, or
\* the rollback and the 500 answer when the commit raises.
SaveTransaction(w, customer_id, transaction, fault) ==
  IF fault = "commit"
    THEN Response(Rollback([w EXCEPT !.txs = Append(@, transaction)]), 500, NoBody)
    ELSE Bind(to_dict(Commit([w EXCEPT !.txs = Append(@, transaction)]), customer_id),
              LAMBDA d : Response(d.w, 201,
                                  [transaction |-> transaction, customer |-> d.val]))

\* POST /customers/<id>/transactions.  `fault` is the store's answer to the
\* final commit: "none", or "commit" when it raises.
add_transaction(w, customer_id, data, fault) ==
  IF ~get_or_404(w, customer_id)
    THEN Response(Rollback(w), 500, NoBody)
  ELSE IF amount_rejected(AmountOf(data))
    THEN Response(w, 400, NoBody)
  ELSE
    Bind(add_points(w, customer_id, AmountOf(data)), LAMBDA a :
      IF a.exc # "none"
        THEN Response(Rollback(a.w), 500, NoBody)
        ELSE
          Bind(get_current_config(a.w), LAMBDA c :
            Bind(calculate_benefit_value(c.w, customer_id, AmountOf(data)), LAMBDA b :
              IF b.exc # "none"
                THEN Response(Rollback(b.w), 500, NoBody)
                ELSE SaveTransaction(
                       b.w, customer_id,
                       Transaction(customer_id, AmountOf(data), a.val, b.val,
                                   b.w.configs[c.val].benefit_type),
                       fault))))

RECURSIVE TransactionsOf(_, _)
\* Transaction.query.filter_by(customer_id=...).order_by(created_at.desc()):
\* the customer's rows, the newest first.
TransactionsOf(rows, customer_id) ==
  IF rows = <<>> THEN <<>>
  ELSE IF rows[Len(rows)].customer_id = customer_id
    THEN <<rows[Len(rows)]>>
           \o TransactionsOf(SubSeq(rows, 1, Len(rows) - 1), customer_id)
    ELSE TransactionsOf(SubSeq(rows, 1, Len(rows) - 1), customer_id)

\* GET /customers/<id>/transactions
get_customer_transactions(w, customer_id) ==
  IF ~get_or_404(w, customer_id)
    THEN Response(w, 500, NoBody)
    ELSE Bind(to_dict(w, customer_id), LAMBDA d :
           Response(d.w, 200,
                    [customer |-> d.val,
                     transactions |-> TransactionsOf(d.w.txs, customer_id)]))

\* GET /config
get_loyalty_config(w) ==
  Bind(get_current_config(w), LAMBDA r : Response(r.w, 200, r.w.configs[r.val]))

\* for field in allowed_fields: if field in data: setattr(config, field, ...)
SetFields(config, data) ==
  [f \in DOMAIN config |-> IF f \in DOMAIN data THEN data[f] ELSE config[f]]

\* PUT /config: every allowed field the body carries is set on the row.
update_loyalty_config(w, data) ==
  Bind(get_current_config(w), LAMBDA r :
    Bind(Commit([r.w EXCEPT !.configs[r.val] = SetFields(@, data)]), LAMBDA w1 :
      Response(w1, 200, w1.configs[r.val])))

\* Customer.query.filter(Customer.level == level, Customer.active == True).count()
CountLevel(rows, level) ==
  Cardinality({i \in 1..Len(rows) : rows[i].level = level /\ rows[i].active})

RECURSIVE SumField(_, _)
\* db.func.sum(column) over the rows of a table, 0 for an empty one.
SumField(rows, field) ==
  IF rows = <<>> THEN 0
  ELSE rows[Len(rows)][field] + SumField(SubSeq(rows, 1, Len(rows) - 1), field)

\* GET /stats
get_stats(w) ==
  Response(w, 200,
    [total_customers |->
       Cardinality({i \in 1..Len(w.customers) : w.customers[i].active}),
     total_transactions |-> Len(w.txs),
     total_revenue |-> SumField(w.txs, "amount"),
     total_points |-> SumField(w.customers, "points"),
     customers_by_level |-> [l \in Levels |-> CountLevel(w.customers, l)]])

\* ------------------------------------------------------------- requests
\* JSON bodies of POST /customers.  One CPF among them passes validate_cpf,
\* and the CPF is unique, so the table holds at most one customer: id 1 is
\* then the known id and id 2 the unknown one.
CreateRequests ==
  {[full_name |-> TRUE, cpf |-> CpfA, phone |-> TRUE, points |-> p] :
     p \in {Absent, Given(499), Given(3000)}}
  \cup {[full_name |-> TRUE, cpf |-> c, phone |-> TRUE, points |-> Absent] :
          c \in {CpfBadCheck, CpfAllSame, CpfShort, NoCpf}}
  \cup {[full_name |-> FALSE, cpf |-> CpfA, phone |-> TRUE, points |-> Absent],
        [full_name |-> TRUE, cpf |-> CpfA, phone |-> FALSE, points |-> Absent]}

\* JSON bodies of PUT /customers/<id>.
UpdateRequests == {[points |-> p] : p \in {Absent, Given(0), Given(1500)}}

\* JSON bodies of POST /customers/<id>/transactions.
TransactionRequests == {[amount |-> a] : a \in {Absent, Given(-5), Given(0), Given(25)}}

\* JSON bodies of PUT /config.
ConfigRequests ==
  {[benefit_type |-> "discount"], [benefit_type |-> "cashback"],
   [benefit_type |-> "points"], [points_per_real |-> 0],
   [silver_threshold |-> 1000, silver_discount |-> 12]}

\* The store's answers to a commit.
Faults == {"none", "commit"}

\* The ids a request may address: every customer, and one id past the last.
RequestIds == 1..(Len(customers) + 1)

\* The requests SpecConcurrent serves at once (two server threads).
Workers == {"a", "b"}

\* A thread serving no request yet: nothing loaded, nothing answered.
Idle ==
  [pc |-> "idle", customer_id |-> 0, data |-> [amount |-> Absent],
   loaded |-> <<>>, seen |-> 0, status |-> 0, body |-> NoBody]

\* ------------------------------------------------------------- the system
\* An empty database (db.create_all()), no request answered yet.
Init ==
  /\ customers = <<>>
  /\ txs = <<>>
  /\ configs = <<>>
  /\ resp = [op |-> "none", customer_id |-> 0, status |-> 0, body |-> NoBody]
  /\ inflight = [t \in Workers |-> Idle]

\* The request ends: what the session committed is the database, the rest
\* of the session is dropped, and the response goes out.  `resp` keeps the
\* last answer: the route, the id in its URL (0 when it has none), the
\* status and the body.
Finish(op, id, r) ==
  /\ customers' = r.w.committed.customers
  /\ txs' = r.w.committed.txs
  /\ configs' = r.w.committed.configs
  /\ resp' = [op |-> op, customer_id |-> id, status |-> r.status, body |-> r.body]
  /\ inflight' = inflight

CreateCustomer ==
  \E data \in CreateRequests :
    Finish("create_customer", 0, create_customer(Begin, data))

GetCustomer ==
  \E id \in RequestIds :
    Finish("get_customer", id, get_customer(Begin, id))

UpdateCustomer ==
  \E id \in RequestIds, data \in UpdateRequests :
    Finish("update_customer", id, update_customer(Begin, id, data))

AddTransaction ==
  /\ Len(txs) < MaxTx
  /\ \E id \in RequestIds, data \in TransactionRequests, fault \in Faults :
       Finish("add_transaction", id, add_transaction(Begin, id, data, fault))

GetCustomerTransactions ==
  \E id \in RequestIds :
    Finish("get_customer_transactions", id,
           get_customer_transactions(Begin, id))

GetLoyaltyConfig ==
  Finish("get_loyalty_config", 0, get_loyalty_config(Begin))

UpdateLoyaltyConfig ==
  \E data \in ConfigRequests :
    Finish("update_loyalty_config", 0, update_loyalty_config(Begin, data))

GetStats == Finish("get_stats", 0, get_stats(Begin))

Next ==
  \/ CreateCustomer
  \/ GetCustomer
  \/ UpdateCustomer
  \/ AddTransaction
  \/ GetCustomerTransactions
  \/ GetLoyaltyConfig
  \/ UpdateLoyaltyConfig
  \/ GetStats

Spec == Init /\ [][Next]_vars

\* A store holding one customer with a balance of `points` and one policy
\* row with the three thresholds, as POST /customers, PUT /customers/<id>
\* and PUT /config leave it (the thresholds are set as given, in any order).
BalanceInit ==
  \E points \in 0..MaxBalance, silver \in 0..MaxThreshold,
     gold \in 0..MaxThreshold, diamond \in 0..MaxThreshold :
    /\ configs = <<[LoyaltyConfig EXCEPT !.silver_threshold = silver,
                                         !.gold_threshold = gold,
                                         !.diamond_threshold = diamond]>>
    /\ customers = <<[cpf |-> CpfA, points |-> points, total_spent |-> 0,
                      level |-> LevelOf(points, configs[1]),
                      last_visit |-> 1, active |-> TRUE]>>
    /\ txs = <<>>
    /\ resp = [op |-> "none", customer_id |-> 0, status |-> 0, body |-> NoBody]
    /\ inflight = [t \in Workers |-> Idle]

\* points_to_next_level applied to every such balance and policy: the
\* customer is read back through GET /customers/<id>.
SpecBalance == BalanceInit /\ [][GetCustomer]_vars

\* ------------------------------------------------- two posts at once
\* A store holding one customer and one policy row, in any benefit mode.
ConcurrentInit ==
  \E points \in {0, 499}, mode \in {"points", "discount", "cashback"} :
    /\ configs = <<[LoyaltyConfig EXCEPT !.benefit_type = mode]>>
    /\ customers = <<[cpf |-> CpfA, points |-> points, total_spent |-> 0,
                      level |-> "Bronze", last_visit |-> 1, active |-> TRUE]>>
    /\ txs = <<>>
    /\ resp = [op |-> "none", customer_id |-> 0, status |-> 0, body |-> NoBody]
    /\ inflight = [t \in Workers |-> Idle]

\* customer = Customer.query.get_or_404(customer_id); data = request.json:
\* the thread's session reads the customer rows as committed now and keeps
\* them (its identity map) for the rest of the request.  `seen` is the
\* number of ledger rows committed at that moment.
LoadCustomer(t) ==
  /\ inflight[t].pc = "idle"
  /\ \E id \in RequestIds, data \in TransactionRequests :
       inflight' = [inflight EXCEPT ![t] =
                      [pc |-> "loaded", customer_id |-> id, data |-> data,
                       loaded |-> customers, seen |-> Len(txs),
                       status |-> 0, body |-> NoBody]]
  /\ UNCHANGED <<customers, txs, configs, resp>>

\* Variant of Resume whose session reads the customer rows again, as
\* committed when the handler goes on (C12 is tested against it).
Resume_refreshed(t) == Session(customers, txs, configs)

\* The session of thread t as its handler goes on: the customer rows are
\* those it loaded, unchanged by what other sessions committed since; the
\* queries it has yet to run (LoyaltyConfig, the INSERT into the ledger)
\* meet the tables as committed now.
Resume(t) ==
  [customers |-> inflight[t].loaded, txs |-> txs, configs |-> configs,
   committed |-> [customers |-> customers, txs |-> txs, configs |-> configs]]

\* The customer table after the session's commit: the UPDATE writes the
\* columns of the one row the handler changed, as the session holds them;
\* nothing is written when the handler did not commit.
WriteBack(rows, id, r) ==
  IF r.status = 201 THEN [rows EXCEPT ![id] = r.w.committed.customers[id]]
  ELSE rows

\* Thread t's request ends with the answer r.
FinishPost(t, r) ==
  /\ customers' = WriteBack(customers, inflight[t].customer_id, r)
  /\ txs' = r.w.committed.txs
  /\ configs' = r.w.committed.configs
  /\ resp' = [op |-> "add_transaction", customer_id |-> inflight[t].customer_id,
              status |-> r.status, body |-> r.body]
  /\ inflight' = [inflight EXCEPT ![t].pc = "done",
                                  ![t].status = r.status,
                                  ![t].body = r.body]

\* The rest of add_transaction on the rows the session loaded: the amount
\* test, add_points, calculate_benefit_value, the Transaction and the
\* commit (or what the except block does).
CompletePost(t) ==
  /\ inflight[t].pc = "loaded"
  /\ \E fault \in Faults :
       FinishPost(t, add_transaction(Resume(t), inflight[t].customer_id,
                                     inflight[t].data, fault))

ConcurrentNext == \E t \in Workers : LoadCustomer(t) \/ CompletePost(t)

SpecConcurrent == ConcurrentInit /\ [][ConcurrentNext]_vars

\* ---------------------------------------------------------------- claims
\* The active policy row of a config table.
ActiveConfig(rows) == rows[FirstActive(rows)]

\* The last answer is a post-transaction answered 201.
Posted == resp.op = "add_transaction" /\ resp.status = 201

\* The percent the policy gives a tier.
PercentOf(level, config) ==
  IF level = "Diamante" THEN config.diamond_discount
  ELSE IF level = "Ouro" THEN config.gold_discount
  ELSE IF level = "Prata" THEN config.silver_discount
  ELSE config.bronze_discount

\* C1 (as claimed): a successful post adds floor(amount / points_per_real)
\* to the customer's points and amount to total_spent, once, in every mode.
C1_PostAddsPointsOnce ==
  [][Posted' =>
       /\ customers'[resp'.customer_id].points =
            customers[resp'.customer_id].points
              + FloorDiv(resp'.body.transaction.amount,
                         ActiveConfig(configs').points_per_real)
       /\ customers'[resp'.customer_id].total_spent =
            customers[resp'.customer_id].total_spent
              + resp'.body.transaction.amount]_vars

\* C2: the benefit_value recorded by a successful post is, in discount and
\* cashback mode, amount * percent(tier stored on the customer after the
\* post) / 100, and in points mode the transaction's points_earned.
C2_BenefitValue ==
  [][Posted' =>
       /\ txs'[Len(txs')] = resp'.body.transaction
       /\ IF ActiveConfig(configs').benefit_type \in {"discount", "cashback"}
            THEN txs'[Len(txs')].benefit_value =
                   txs'[Len(txs')].amount
                     * PercentOf(customers'[resp'.customer_id].level,
                                 ActiveConfig(configs'))
            ELSE txs'[Len(txs')].benefit_value =
                   txs'[Len(txs')].points_earned * PercentBase]_vars

\* A discount post that promoted the customer from Bronze (499 points) to
\* Prata and was paid the Prata percent.
C2_Witness ==
  /\ Posted
  /\ resp.body.transaction.benefit_type = "discount"
  /\ resp.body.customer.points = 501
  /\ resp.body.customer.level = "Prata"
  /\ resp.body.transaction.benefit_value =
       resp.body.transaction.amount * ActiveConfig(configs).silver_discount

\* The step is the answer to this post-transaction request.
PostStep(id, data, fault) ==
  Finish("add_transaction", id, add_transaction(Begin, id, data, fault))

\* C3: a post to an existing customer with amount <= 0, or with no amount,
\* is answered 400 and leaves every row as it was.
C3_NonPositiveAmountRejected ==
  [][\A id \in 1..Len(customers), data \in TransactionRequests, fault \in Faults :
       (AmountOf(data) <= 0 /\ PostStep(id, data, fault)) =>
         /\ resp'.status = 400
         /\ UNCHANGED <<customers, txs, configs>>]_vars

\* A post to the existing customer has been answered 400.
C3_Witness ==
  /\ resp.op = "add_transaction"
  /\ resp.status = 400
  /\ resp.customer_id \in 1..Len(customers)

\* C4 (as claimed): a request addressed to an unknown customer id is
\* answered 404.
C4_UnknownIdIs404 ==
  (/\ resp.op \in {"get_customer", "add_transaction", "get_customer_transactions"}
   /\ resp.customer_id > Len(customers))
    => resp.status = 404

\* C5: a post is all-or-nothing.  Answered otherwise than 201, it leaves the
\* customers and the ledger as they were; answered 201, it has changed the
\* customer's total_spent and appended the transaction it answers with; and
\* in every post, points or total_spent change only together with the append.
C5_PostAllOrNothing ==
  [][resp'.op = "add_transaction" =>
       /\ resp'.status # 201 => (customers' = customers /\ txs' = txs)
       /\ resp'.status = 201 =>
            /\ txs' = Append(txs, resp'.body.transaction)
            /\ resp'.body.transaction.customer_id = resp'.customer_id
            /\ customers'[resp'.customer_id].total_spent
                 # customers[resp'.customer_id].total_spent
       /\ customers' # customers => Len(txs') = Len(txs) + 1]_vars

\* A post to the existing customer failed at the commit, after the points
\* had been added in the session.
C5_Witness ==
  /\ resp.op = "add_transaction"
  /\ resp.status = 500
  /\ resp.customer_id \in 1..Len(customers)
  /\ ActiveConfig(configs).points_per_real # 0

\* computeTier(points, policy): the tier of a points total, diamond first.
ComputeTier(points, config) ==
  IF points >= config.diamond_threshold THEN "Diamante"
  ELSE IF points >= config.gold_threshold THEN "Ouro"
  ELSE IF points >= config.silver_threshold THEN "Prata"
  ELSE "Bronze"

C7_TierRecomputedOnPointChange ==
  [][\A i \in 1..Len(customers') :
       (i > Len(customers) \/ customers'[i].points # customers[i].points)
         => customers'[i].level =
              ComputeTier(customers'[i].points, ActiveConfig(configs'))]_vars

\* What GET /customers/<id> reports of customer i when the tables are c, t, g.
Reported(c, t, g, i) == to_dict(Session(c, t, g), i).val

\* The customers_by_level that GET /stats reports when the tables are c, t, g.
ReportedByLevel(c, t, g) == get_stats(Session(c, t, g)).body.customers_by_level

\* The number of customers among c whose points give them the tier under
\* the policy of g.
CountTier(c, g, level) ==
  Cardinality({i \in 1..Len(c) :
                 c[i].active /\ ComputeTier(c[i].points, ActiveConfig(g)) = level})

\* C8 (as claimed): right after a policy update, for every customer whose
\* stored tier was right before it, the tier and the discount reported are
\* those of the points under the new policy, the discount is the percent of
\* the reported tier, and /stats counts the customers by that tier.
C8_ReportsFollowNewPolicy ==
  [][resp'.op = "update_loyalty_config" =>
       \A i \in 1..Len(customers) :
         customers[i].level = ComputeTier(customers[i].points, ActiveConfig(configs))
           => /\ Reported(customers', txs', configs', i).level =
                   ComputeTier(customers'[i].points, ActiveConfig(configs'))
              /\ Reported(customers', txs', configs', i).discount =
                   PercentOf(Reported(customers', txs', configs', i).level,
                             ActiveConfig(configs'))
              /\ ReportedByLevel(customers', txs', configs') =
                   [l \in Levels |-> CountTier(customers', configs', l)]]_vars

\* The documented default policy.
DefaultPolicy ==
  [benefit_type |-> "points", points_per_real |-> 10,
   silver_threshold |-> 500, gold_threshold |-> 1500, diamond_threshold |-> 3000,
   bronze_discount |-> 5, silver_discount |-> 10, gold_discount |-> 15,
   diamond_discount |-> 20, active |-> TRUE]

\* C9: in every store state, a second get_current_config() right after a
\* first returns the same row with the same values and changes nothing; after
\* them exactly one policy is active, and it is the default one when the
\* store held none.
C9_GetCurrentConfigIdempotent ==
  Bind(get_current_config(Begin), LAMBDA first :
    Bind(get_current_config(first.w), LAMBDA second :
      /\ second.val = first.val
      /\ second.w = first.w
      /\ second.w.configs[second.val] = first.w.configs[first.val]
      /\ Cardinality(ActiveRows(second.w.committed.configs)) = 1
      /\ configs = <<>> => second.w.committed.configs = <<DefaultPolicy>>
      /\ configs # <<>> => second.w.committed.configs = configs))

\* GET /config on the empty store has materialized the default policy.
C9_Witness ==
  /\ resp.op = "get_loyalty_config"
  /\ resp.body = DefaultPolicy
  /\ configs = <<DefaultPolicy>>
  /\ customers = <<>>

\* C10: the ledger is append-only.  A post answered 201 appends exactly one
\* row, whose benefit_type is the policy's at that time; every other step
\* leaves the ledger as it was, and no step changes a row already there.
C10_LedgerAppendOnly ==
  [][IF Posted'
       THEN /\ Len(txs') = Len(txs) + 1
            /\ SubSeq(txs', 1, Len(txs)) = txs
            /\ txs'[Len(txs')].benefit_type = ActiveConfig(configs').benefit_type
            /\ txs'[Len(txs')].customer_id = resp'.customer_id
       ELSE txs' = txs]_vars

\* Two rows posted under different modes, the first kept as posted after
\* the policy's mode has changed twice.
C10_Witness ==
  /\ Len(txs) = 2
  /\ txs[1].benefit_type = "points"
  /\ txs[2].benefit_type = "discount"
  /\ ActiveConfig(configs).benefit_type = "cashback"

\* The thresholds of a policy row, and the least of them above `points`.
Thresholds(config) ==
  {config.silver_threshold, config.gold_threshold, config.diamond_threshold}

NextThreshold(points, config) ==
  CHOOSE t \in Thresholds(config) :
    /\ t > points
    /\ \A u \in Thresholds(config) : u > points => t <= u

\* What C11 says of a gap, for a balance and a policy row.
GapAsSpecified(gap, points, config) ==
  /\ gap = 0 <=> points >= config.diamond_threshold
  /\ points < config.diamond_threshold =>
       /\ gap > 0
       /\ gap = NextThreshold(points, config) - points

\* C11: for a balance p >= 0 and a policy with silver <= gold <= diamond,
\* points_to_next_level is 0 exactly when p >= diamond threshold; below it,
\* the gap is positive and is the least threshold above p, minus p.  This
\* holds of the method on every stored customer and of the
\* points_to_next_level field of every customer GET /customers/<id> returns.
C11_PointsToNextLevel ==
  \A i \in 1..Len(customers) :
    (/\ customers[i].points >= 0
     /\ ActiveRows(configs) # {}
     /\ ActiveConfig(configs).silver_threshold <= ActiveConfig(configs).gold_threshold
     /\ ActiveConfig(configs).gold_threshold <= ActiveConfig(configs).diamond_threshold)
    => /\ GapAsSpecified(points_to_next_level(Begin, i).val,
                         customers[i].points, ActiveConfig(configs))
       /\ (resp.op = "get_customer" /\ resp.status = 200 /\ resp.customer_id = i)
            => GapAsSpecified(resp.body.points_to_next_level,
                              customers[i].points, ActiveConfig(configs))

\* A customer between distinct silver and gold thresholds was read back,
\* with the distance to gold as the gap.
C11_Witness ==
  /\ resp.op = "get_customer" /\ resp.status = 200
  /\ ActiveConfig(configs).silver_threshold < ActiveConfig(configs).gold_threshold
  /\ ActiveConfig(configs).gold_threshold < ActiveConfig(configs).diamond_threshold
  /\ customers[1].points >= ActiveConfig(configs).silver_threshold
  /\ customers[1].points < ActiveConfig(configs).gold_threshold
  /\ resp.body.points_to_next_level
       = ActiveConfig(configs).gold_threshold - customers[1].points
  /\ resp.body.points_to_next_level > 0

\* Both threads' posts were answered 201.
BothPosted ==
  \A t \in Workers : inflight[t].pc = "done" /\ inflight[t].status = 201

\* Both threads loaded the customer before either committed.
Overlapped == \A t \in Workers : inflight[t].seen = 0

\* What thread t's post adds to a column of a customer row: the change the
\* handler makes when it serves the request alone, on the rows t loaded.
Added(t, column) ==
  add_transaction(Session(inflight[t].loaded, <<>>, configs),
                  inflight[t].customer_id, inflight[t].data,
                  "none").body.customer[column]
    - inflight[t].loaded[inflight[t].customer_id][column]

\* The column as the first of the two loads found it.
BaseOf(column) ==
  inflight[CHOOSE t \in Workers : inflight[t].seen = 0].loaded[1][column]

\* The column of the committed row reflects both posts / one post only.
ReflectsBoth(column) ==
  customers[1][column] = BaseOf(column) + Added("a", column) + Added("b", column)

ReflectsOne(column) ==
  \E t \in Workers : customers[1][column] = BaseOf(column) + Added(t, column)

\* C12: two posts on one customer, each reading the customer, adding its
\* points and amount and writing the row back, can lose an update.  When
\* both are answered 201 both ledger rows are persisted; the customer's
\* points and total_spent reflect both posts when the second loaded the
\* customer after the first committed, and only one of the two posts when
\* both loaded the customer before either committed.
C12_OverlappingPostsLoseUpdate ==
  BothPosted =>
    /\ Len(txs) = 2
    /\ {inflight[t].body.transaction : t \in Workers} = {txs[1], txs[2]}
    /\ \A column \in {"points", "total_spent"} :
         IF Overlapped THEN ReflectsOne(column) ELSE ReflectsBoth(column)

\* Two overlapping posts of 25 were both answered 201 and both ledger rows
\* are there, but total_spent and points hold less than the two posts
\* added: what one post made of the row it loaded.
C12_Witness ==
  /\ BothPosted
  /\ Overlapped
  /\ Len(txs) = 2
  /\ \A t \in Workers : Added(t, "total_spent") > 0 /\ Added(t, "points") > 0
  /\ \A column \in {"points", "total_spent"} :
       /\ ReflectsOne(column)
       /\ ~ReflectsBoth(column)
       /\ customers[1][column] = resp.body.customer[column]
====
